---- MODULE Spec2Model ----
(***************************************************************************)
(* Model of src/script.js: the ACMonitorApp class of the AC monitoring     *)
(* dashboard.  The page (document.readyState, the elements the script      *)
(* looks up, their className / innerText / data-val) is the environment;   *)
(* the application object holds isConnected and the cached element         *)
(* handles.  Every handler of the script runs to completion in one step:   *)
(* the constructor (script.js:114), the DOMContentLoaded listener          *)
(* (script.js:46) and the click listener (script.js:35).                   *)
(***************************************************************************)
EXTENDS Naturals, Sequences, FiniteSets

VARIABLES
    pc,             \* "script": line 114 has not run yet; "constructed": it has
    readyState,     \* document.readyState
    elems,          \* ids of the elements that exist in the page
    dataVal,        \* data-val attribute of each .sensor-val element (Null: no attribute)
    dom,            \* what the page shows: className / innerText of the surfaces
    isConnected,    \* this.isConnected
    indicatorBtn,   \* this.indicatorBtn   (Null or the element id)
    indicatorIcon,  \* this.indicatorIcon
    indicatorText,  \* this.indicatorText
    pulseRing,      \* this.pulseRing
    sensorValues,   \* this.sensorValues: the NodeList, as the indices of its elements
    clickListener,  \* the click listener of line 35 is registered
    domListener,    \* the DOMContentLoaded listener of line 46 is registered
    lastOp,         \* the handler that ran last: "none", "construct", "ready", "click"
    threw,          \* that handler ended by an uncaught TypeError
    clicks,         \* click events processed so far
    initRenders,    \* updateUI() calls made by initialize() (line 46 or line 48)
    clickRenders,   \* updateUI() calls made by handleIndicatorClick() (line 108)
    prev            \* isConnected, dom, lastOp and render count before the last handler ran

vars == <<pc, readyState, elems, dataVal, dom, isConnected, indicatorBtn,
          indicatorIcon, indicatorText, pulseRing, sensorValues, clickListener,
          domListener, lastOp, threw, clicks, initRenders, clickRenders, prev>>

---------------------------------------------------------------------------
(* Bounds of the model *)

\* at most this many .sensor-val elements in the page
MaxSensors == 2

\* at most this many click events are processed
MaxClicks == 3

---------------------------------------------------------------------------
(* Values *)

\* JavaScript null: what getElementById and getAttribute return when nothing is found
Null == "<null>"

\* the ids the constructor looks up (lines 16-19)
SurfaceIds == {"indicatorBtn", "indicatorIcon", "indicatorText", "pulseRing"}

\* data-val attribute values of the page's markup; "0" is a reading that
\* equals the reset text
AttrValues == {Null, "0", "23.5"}

\* what the markup shows in a sensor element before any render
MarkupSensorTexts == {"--", "0"}

\* className / innerText the markup gives the four surfaces before any render
MarkupValue == "<markup>"

ReadyStates == {"loading", "interactive", "complete"}

\* line 63
OnlineBtnClass == "group relative flex items-center gap-1 sm:gap-1.5 rounded-full px-2.5 sm:px-3 py-1 transition-all duration-300 ease-out hover:scale-105 active:scale-95 shadow-lg bg-gradient-to-r from-emerald-500 to-emerald-400 shadow-emerald-900/40 ring-1 ring-white/10"

\* line 82
OfflineBtnClass == "group relative flex items-center gap-1 sm:gap-1.5 rounded-full px-2.5 sm:px-3 py-1 transition-all duration-300 ease-out hover:scale-105 active:scale-95 shadow-lg bg-gradient-to-r from-rose-600 to-red-500 shadow-rose-900/40 ring-1 ring-white/10"

\* line 70
HiddenPulseClass == "hidden"

\* line 89
PingPulseClass == "absolute -inset-1 -z-10 rounded-full bg-red-500 opacity-20 animate-ping"

---------------------------------------------------------------------------
(* The DOM calls the script makes *)

\* document.getElementById(id): the element, or null
GetElementById(id) == IF id \in elems THEN id ELSE Null

\* document.querySelectorAll('.sensor-val'): always a NodeList, possibly empty
QuerySelectorAll == 1 .. Len(dataVal)

\* el.getAttribute('data-val'): the attribute's value, or null
GetAttribute(i) == dataVal[i]

\* the innerText setter: null is written as the empty string
SetInnerText(v) == IF v = Null THEN "" ELSE v

---------------------------------------------------------------------------
(* updateUI, lines 58-96 *)

IndicatorBtnClassOnce(conn) ==
    IF dom.indicatorBtn = MarkupValue
    THEN (IF conn THEN OnlineBtnClass ELSE OfflineBtnClass)
    ELSE dom.indicatorBtn

\* lines 63 / 82
IndicatorBtnClass(conn) == IF conn THEN OnlineBtnClass ELSE OfflineBtnClass

IndicatorIconTextStuck(conn) == "wifi_off"

\* lines 66 / 85
IndicatorIconText(conn) == IF conn THEN "wifi" ELSE "wifi_off"

\* lines 67 / 86
IndicatorTextText(conn) == IF conn THEN "Online" ELSE "Offline"

PulseRingClassToggled(conn) ==
    IF dom.pulseRing = HiddenPulseClass THEN PingPulseClass ELSE HiddenPulseClass

\* lines 70 / 89
PulseRingClass(conn) == IF conn THEN HiddenPulseClass ELSE PingPulseClass

SensorInnerTextAlwaysTrue(conn, i) == SetInnerText(GetAttribute(i))

\* lines 75 / 93
SensorInnerText(conn, i) ==
    IF conn THEN SetInnerText(GetAttribute(i)) ELSE SetInnerText("0")

\* The statements of updateUI in order, on the page `d`.  An assignment to a
\* property of a null handle raises a TypeError, which ends the call: the
\* statements before it have taken effect, those after it have not.
UpdateUI(conn, btn, icon, text, pulse, sv, d) ==
    IF btn = Null THEN [dom |-> d, threw |-> TRUE] ELSE
    LET d1 == [d EXCEPT !.indicatorBtn = IndicatorBtnClass(conn)] IN
    IF icon = Null THEN [dom |-> d1, threw |-> TRUE] ELSE
    LET d2 == [d1 EXCEPT !.indicatorIcon = SetInnerText(IndicatorIconText(conn))] IN
    IF text = Null THEN [dom |-> d2, threw |-> TRUE] ELSE
    LET d3 == [d2 EXCEPT !.indicatorText = SetInnerText(IndicatorTextText(conn))] IN
    IF pulse = Null THEN [dom |-> d3, threw |-> TRUE] ELSE
    LET d4 == [d3 EXCEPT !.pulseRing = PulseRingClass(conn)] IN
    LET d5 == [d4 EXCEPT !.sensors =
                 [i \in DOMAIN d4.sensors |->
                    IF i \in sv THEN SensorInnerText(conn, i) ELSE d4.sensors[i]]] IN
    [dom |-> d5, threw |-> FALSE]

---------------------------------------------------------------------------
(* The rest of the class *)

InitialIsConnectedTrue == TRUE

\* line 13
InitialIsConnected == FALSE

\* line 34: the listener is added only when the button was found
SetupEventListeners(btn) == btn # Null

RendersNowAlways(rs) == TRUE

\* line 45, else branch: initialize() renders at once unless the document is loading
RendersNow(rs) == rs # "loading"

SetConnected(conn) == TRUE

KeepConnected(conn) == conn

\* line 105
Toggle(conn) == ~conn

\* what the state was before a handler ran
Snapshot == [isConnected |-> isConnected, dom |-> dom, lastOp |-> lastOp,
             renders |-> initRenders + clickRenders]

---------------------------------------------------------------------------
(* Initial states: the page before the script runs *)

Init ==
    /\ pc = "script"
    /\ readyState \in ReadyStates
    /\ elems \in SUBSET SurfaceIds
    /\ \E n \in 0 .. MaxSensors :
         /\ dataVal \in [1 .. n -> AttrValues]
         /\ \E st \in [1 .. n -> MarkupSensorTexts] :
              dom = [indicatorBtn |-> MarkupValue, indicatorIcon |-> MarkupValue,
                     indicatorText |-> MarkupValue, pulseRing |-> MarkupValue,
                     sensors |-> st]
    /\ isConnected \in BOOLEAN      \* the field does not exist yet
    /\ indicatorBtn = Null
    /\ indicatorIcon = Null
    /\ indicatorText = Null
    /\ pulseRing = Null
    /\ sensorValues = {}
    /\ clickListener = FALSE
    /\ domListener = FALSE
    /\ lastOp = "none"
    /\ threw = FALSE
    /\ clicks = 0
    /\ initRenders = 0
    /\ clickRenders = 0
    /\ prev = [isConnected |-> isConnected, dom |-> dom, lastOp |-> "none", renders |-> 0]

---------------------------------------------------------------------------
(* Handlers *)

\* new ACMonitorApp(), line 114: the constructor, lines 10-27, with
\* setupEventListeners (33-37) and initialize (43-50) which it calls
Construct ==
    /\ pc = "script"
    /\ pc' = "constructed"
    /\ isConnected' = InitialIsConnected
    /\ indicatorBtn' = GetElementById("indicatorBtn")
    /\ indicatorIcon' = GetElementById("indicatorIcon")
    /\ indicatorText' = GetElementById("indicatorText")
    /\ pulseRing' = GetElementById("pulseRing")
    /\ sensorValues' = QuerySelectorAll
    /\ clickListener' = SetupEventListeners(indicatorBtn')
    /\ IF RendersNow(readyState)
       THEN LET r == UpdateUI(isConnected', indicatorBtn', indicatorIcon',
                              indicatorText', pulseRing', sensorValues', dom) IN
            /\ dom' = r.dom
            /\ threw' = r.threw
            /\ initRenders' = initRenders + 1
            /\ domListener' = domListener
       ELSE /\ domListener' = TRUE
            /\ dom' = dom
            /\ threw' = FALSE
            /\ initRenders' = initRenders
    /\ lastOp' = "construct"
    /\ prev' = Snapshot
    /\ UNCHANGED <<readyState, elems, dataVal, clicks, clickRenders>>

DOMContentLoadedResetting ==
    /\ readyState = "loading"
    /\ readyState' = "interactive"
    /\ IF domListener
       THEN LET r == UpdateUI(InitialIsConnected, indicatorBtn, indicatorIcon,
                              indicatorText, pulseRing, sensorValues, dom) IN
            /\ isConnected' = InitialIsConnected
            /\ dom' = r.dom
            /\ threw' = r.threw
            /\ initRenders' = initRenders + 1
            /\ lastOp' = "ready"
            /\ prev' = Snapshot
       ELSE UNCHANGED <<isConnected, dom, threw, initRenders, lastOp, prev>>
    /\ UNCHANGED <<pc, elems, dataVal, indicatorBtn, indicatorIcon,
                   indicatorText, pulseRing, sensorValues, clickListener,
                   domListener, clicks, clickRenders>>

DOMContentLoadedStale ==
    /\ readyState = "loading"
    /\ readyState' = "interactive"
    /\ IF domListener
       THEN LET r == UpdateUI(InitialIsConnected, indicatorBtn, indicatorIcon,
                              indicatorText, pulseRing, sensorValues, dom) IN
            /\ dom' = r.dom
            /\ threw' = r.threw
            /\ initRenders' = initRenders + 1
            /\ lastOp' = "ready"
            /\ prev' = Snapshot
       ELSE UNCHANGED <<dom, threw, initRenders, lastOp, prev>>
    /\ UNCHANGED <<pc, elems, dataVal, isConnected, indicatorBtn, indicatorIcon,
                   indicatorText, pulseRing, sensorValues, clickListener,
                   domListener, clicks, clickRenders>>

\* The document's one DOMContentLoaded event: readyState leaves "loading",
\* and the listener of line 46, if registered, calls updateUI()
DOMContentLoaded ==
    /\ readyState = "loading"
    /\ readyState' = "interactive"
    /\ IF domListener
       THEN LET r == UpdateUI(isConnected, indicatorBtn, indicatorIcon,
                              indicatorText, pulseRing, sensorValues, dom) IN
            /\ dom' = r.dom
            /\ threw' = r.threw
            /\ initRenders' = initRenders + 1
            /\ lastOp' = "ready"
            /\ prev' = Snapshot
       ELSE UNCHANGED <<dom, threw, initRenders, lastOp, prev>>
    /\ UNCHANGED <<pc, elems, dataVal, isConnected, indicatorBtn, indicatorIcon,
                   indicatorText, pulseRing, sensorValues, clickListener,
                   domListener, clicks, clickRenders>>

\* The window's load event: readyState becomes "complete"; the script
\* listens to nothing here
PageLoad ==
    /\ readyState = "interactive"
    /\ readyState' = "complete"
    /\ UNCHANGED <<pc, elems, dataVal, dom, isConnected, indicatorBtn,
                   indicatorIcon, indicatorText, pulseRing, sensorValues,
                   clickListener, domListener, lastOp, threw, clicks,
                   initRenders, clickRenders, prev>>

HandleIndicatorClickStoringText ==
    /\ pc = "constructed"
    /\ clickListener
    /\ clicks < MaxClicks
    /\ isConnected' = Toggle(isConnected)
    /\ LET r == UpdateUI(isConnected', indicatorBtn, indicatorIcon,
                         indicatorText, pulseRing, sensorValues, dom) IN
         /\ dom' = r.dom
         /\ threw' = r.threw
         /\ dataVal' = r.dom.sensors
    /\ clicks' = clicks + 1
    /\ clickRenders' = clickRenders + 1
    /\ lastOp' = "click"
    /\ prev' = Snapshot
    /\ UNCHANGED <<pc, readyState, elems, indicatorBtn, indicatorIcon,
                   indicatorText, pulseRing, sensorValues, clickListener,
                   domListener, initRenders>>

\* A click on #indicatorBtn: handleIndicatorClick, lines 103-109
HandleIndicatorClick ==
    /\ pc = "constructed"
    /\ clickListener
    /\ clicks < MaxClicks
    /\ isConnected' = Toggle(isConnected)
    /\ LET r == UpdateUI(isConnected', indicatorBtn, indicatorIcon,
                         indicatorText, pulseRing, sensorValues, dom) IN
         /\ dom' = r.dom
         /\ threw' = r.threw
    /\ clicks' = clicks + 1
    /\ clickRenders' = clickRenders + 1
    /\ lastOp' = "click"
    /\ prev' = Snapshot
    /\ UNCHANGED <<pc, readyState, elems, dataVal, indicatorBtn, indicatorIcon,
                   indicatorText, pulseRing, sensorValues, clickListener,
                   domListener, initRenders>>

Next == Construct \/ DOMContentLoaded \/ PageLoad \/ HandleIndicatorClick

Spec == Init /\ [][Next]_vars

---------------------------------------------------------------------------
(* Vocabulary of the properties *)

\* the controller exists and found all four elements (the sensor NodeList always exists)
AllBound ==
    /\ pc = "constructed"
    /\ indicatorBtn # Null
    /\ indicatorIcon # Null
    /\ indicatorText # Null
    /\ pulseRing # Null

\* updateUI() calls made so far
Renders == initRenders + clickRenders

Rendered == Renders > 0

\* every sensor element shows the reset text
SensorsShowZero == \A i \in DOMAIN dom.sensors : dom.sensors[i] = "0"

\* every sensor element that carries a data-val attribute shows it
SensorsShowTrueValue ==
    \A i \in DOMAIN dom.sensors : dataVal[i] # Null => dom.sensors[i] = dataVal[i]

SensorsMatchState == IF isConnected THEN SensorsShowTrueValue ELSE SensorsShowZero

---------------------------------------------------------------------------
(* Properties *)

\* C1: with all surfaces bound, in every state after the first render each
\* sensor element shows its data-val when connected and "0" when disconnected.
C1_SensorsFollowState == (AllBound /\ Rendered) => SensorsMatchState

C1_Witness ==
    /\ AllBound
    /\ isConnected
    /\ clicks = 3
    /\ readyState = "complete"
    /\ \E i \in DOMAIN dom.sensors : dataVal[i] = "23.5" /\ dom.sensors[i] = "23.5"

\* C2: with all surfaces bound, in every state after the first render the
\* indicator, icon, label and pulse are all four those of the render table
\* for the current isConnected; no mixed combination.
C2_RenderTable ==
    (AllBound /\ Rendered) =>
        IF isConnected
        THEN /\ dom.indicatorBtn = OnlineBtnClass
             /\ dom.indicatorIcon = "wifi"
             /\ dom.indicatorText = "Online"
             /\ dom.pulseRing = HiddenPulseClass
        ELSE /\ dom.indicatorBtn = OfflineBtnClass
             /\ dom.indicatorIcon = "wifi_off"
             /\ dom.indicatorText = "Offline"
             /\ dom.pulseRing = PingPulseClass

C2_Witness ==
    /\ AllBound
    /\ lastOp = "click"
    /\ clicks = 2
    /\ ~isConnected
    /\ dom.indicatorText = "Offline"
    /\ dom.pulseRing = PingPulseClass

\* what C3 says the page is right after the first render
InitialPresentation ==
    /\ ~isConnected
    /\ dom.pulseRing = PingPulseClass
    /\ SensorsShowZero

\* C3 as stated: with all surfaces bound, right after the first render the
\* state is Disconnected, the pulse visible and every sensor "0", for every
\* ordering of click and readiness events.
C3_Original == (AllBound /\ Renders = 1) => InitialPresentation

\* C3 amended: the same, provided no click event was processed before that
\* first render.
C3_FirstRender == (AllBound /\ Renders = 1 /\ clicks = 0) => InitialPresentation

C3_Witness ==
    /\ AllBound
    /\ lastOp = "ready"
    /\ Renders = 1
    /\ clicks = 0
    /\ Len(dataVal) > 0
    /\ InitialPresentation

\* C4: when only the pulse element is absent, a render completes without
\* raising and the icon, the label and every sensor follow the current state.
C4_PulseAbsentRenderCompletes ==
    ( /\ pc = "constructed"
      /\ Rendered
      /\ pulseRing = Null
      /\ indicatorBtn # Null /\ indicatorIcon # Null /\ indicatorText # Null )
    => /\ ~threw
       /\ dom.indicatorIcon = IndicatorIconText(isConnected)
       /\ dom.indicatorText = IndicatorTextText(isConnected)
       /\ SensorsMatchState

\* C5: two consecutive clicks, made after some render, bring isConnected and
\* the whole page back to what they were before the two clicks.
C5_ToggleInvolution ==
    [][ ( /\ lastOp = "click"
          /\ lastOp' = "click"
          /\ clicks' = clicks + 1
          /\ prev.renders > 0 )
        => /\ isConnected' = prev.isConnected
           /\ dom' = prev.dom ]_vars

C5_Witness ==
    /\ lastOp = "click"
    /\ prev.lastOp = "click"
    /\ prev.renders >= 2
    /\ AllBound
    /\ Len(dataVal) > 0
    /\ isConnected

\* C6: a render that follows a render with no toggle between them (the
\* readiness render after a click) leaves every surface as it was and
\* changes nothing else of the page or the controller.
C6_RenderIdempotent ==
    [][ ( /\ pc = "constructed"
          /\ Rendered
          /\ Renders' = Renders + 1
          /\ clicks' = clicks )
        => /\ dom' = dom
           /\ UNCHANGED <<isConnected, dataVal, elems, indicatorBtn, indicatorIcon,
                          indicatorText, pulseRing, sensorValues, clickListener>> ]_vars

C6_Witness ==
    /\ AllBound
    /\ lastOp = "ready"
    /\ prev.renders >= 1
    /\ prev.lastOp = "click"
    /\ Len(dataVal) > 0
    /\ dom = prev.dom

\* C7: initialize() makes exactly one updateUI() call: at once when the
\* document is not loading; otherwise none until DOMContentLoaded, and one
\* when it fires.
C7_OneInitialRender ==
    /\ pc = "script" => initRenders = 0
    /\ pc = "constructed" => initRenders = (IF readyState = "loading" THEN 0 ELSE 1)
    /\ lastOp = "construct" => (domListener <=> readyState = "loading")

C7_Witness ==
    /\ pc = "constructed"
    /\ domListener
    /\ lastOp = "ready"
    /\ prev.lastOp = "construct"
    /\ prev.renders = 0
    /\ initRenders = 1

\* C8: a click, whatever elements are present, inverts isConnected, calls
\* updateUI() and ends without raising.
C8_ToggleTotal ==
    lastOp = "click" =>
        /\ isConnected = ~prev.isConnected
        /\ Renders = prev.renders + 1
        /\ ~threw

\* C9: construction with any element absent ends without raising, and a
\* render it makes still updates every element that is present.
C9_DegradedConstruction ==
    lastOp = "construct" =>
        /\ ~threw
        /\ Rendered =>
             /\ indicatorBtn # Null => dom.indicatorBtn = IndicatorBtnClass(isConnected)
             /\ indicatorIcon # Null => dom.indicatorIcon = IndicatorIconText(isConnected)
             /\ indicatorText # Null => dom.indicatorText = IndicatorTextText(isConnected)
             /\ pulseRing # Null => dom.pulseRing = PulseRingClass(isConnected)
             /\ SensorsMatchState

\* C10: isConnected is FALSE right after construction, and afterwards only
\* a click changes it.
C10_OnlyToggleMutates ==
    [][ /\ (pc = "script" /\ pc' = "constructed") => isConnected' = FALSE
        /\ (pc = "constructed" /\ isConnected' # isConnected)
              => (lastOp' = "click" /\ clicks' = clicks + 1) ]_vars

C10_Witness ==
    /\ lastOp = "ready"
    /\ prev.lastOp = "click"
    /\ isConnected
    /\ prev.isConnected
    /\ clicks = 1

\* the page the render table gives for a state: a function of the flag and
\* of the data-val attributes alone (an element without the attribute gets
\* the empty string)
TablePage(conn) ==
    [indicatorBtn  |-> IF conn THEN OnlineBtnClass ELSE OfflineBtnClass,
     indicatorIcon |-> IF conn THEN "wifi" ELSE "wifi_off",
     indicatorText |-> IF conn THEN "Online" ELSE "Offline",
     pulseRing     |-> IF conn THEN HiddenPulseClass ELSE PingPulseClass,
     sensors       |-> [i \in DOMAIN dataVal |->
                          IF conn THEN (IF dataVal[i] = Null THEN "" ELSE dataVal[i])
                                  ELSE "0"]]

\* the surfaces a call of updateUI reaches: those before the first handle
\* that is null, in the order of its statements
Reached(g) ==
    CASE g = "indicatorBtn"  -> indicatorBtn # Null
      [] g = "indicatorIcon" -> indicatorBtn # Null /\ indicatorIcon # Null
      [] g = "indicatorText" -> /\ indicatorBtn # Null /\ indicatorIcon # Null
                                /\ indicatorText # Null
      [] OTHER               -> /\ indicatorBtn # Null /\ indicatorIcon # Null
                                /\ indicatorText # Null /\ pulseRing # Null

SurfaceGroups == {"indicatorBtn", "indicatorIcon", "indicatorText", "pulseRing", "sensors"}

\* C11: what a render leaves on the page is decided by isConnected and the
\* data-val attributes alone, whatever the page showed before and whatever
\* events led there: with all elements found, every one of the five surface
\* groups gets the table's value on every updateUI() call; a surface the
\* call does not reach keeps what it had.
C11_RenderPureFunction ==
    [][ (pc' = "constructed" /\ Renders' = Renders + 1) =>
          /\ \A g \in SurfaceGroups :
                dom'[g] = IF Reached(g)' THEN TablePage(isConnected')[g] ELSE dom[g]
          /\ AllBound' => (dom' = TablePage(isConnected') /\ ~threw') ]_vars

\* Disconnected reached by two clicks made before the readiness render,
\* from a page that showed the online presentation
C11_Witness ==
    /\ AllBound
    /\ lastOp = "click"
    /\ clicks = 2
    /\ initRenders = 0
    /\ prev.dom = TablePage(TRUE)
    /\ dom = TablePage(FALSE)
    /\ \E i \in DOMAIN dataVal : dataVal[i] = "23.5"

\* C12: no handler changes a data-val attribute: it is only read.
C12_TrueValueNeverWritten == [][dataVal' = dataVal]_vars

\* renders in both states have happened and the reading is still there
\* while the element shows the reset text
C12_Witness ==
    /\ AllBound
    /\ lastOp = "click"
    /\ clicks = 2
    /\ initRenders = 1
    /\ \E i \in DOMAIN dataVal : dataVal[i] = "23.5" /\ dom.sensors[i] = "0"

\* every surface updateUI reaches shows the table's value for the current flag
ConsistentWithFlag ==
    \A g \in SurfaceGroups : Reached(g) => dom[g] = TablePage(isConnected)[g]

\* C13: the DOMContentLoaded render that comes after clicks leaves
\* isConnected as the clicks left it and shows that state, not the initial
\* one: the earlier toggles are not undone.
C13_ReadyRenderUsesCurrentState ==
    (lastOp = "ready" /\ clicks > 0) =>
        /\ isConnected = prev.isConnected
        /\ isConnected = (clicks % 2 = 1)
        /\ ConsistentWithFlag
        /\ AllBound => dom = TablePage(isConnected)

C13_Witness ==
    /\ AllBound
    /\ lastOp = "ready"
    /\ prev.lastOp = "click"
    /\ clicks = 1
    /\ isConnected
    /\ dom.indicatorText = "Online"
    /\ \E i \in DOMAIN dataVal : dataVal[i] = "23.5" /\ dom.sensors[i] = "23.5"

\* C14: once constructed, isConnected holds exactly when an odd number of
\* clicks were processed; each click flips it once and calls updateUI()
\* once, in the same handler.
C14_OddClicksConnected ==
    pc = "constructed" =>
        /\ isConnected = (clicks % 2 = 1)
        /\ clickRenders = clicks
        /\ lastOp = "click" =>
             /\ isConnected = ~prev.isConnected
             /\ Renders = prev.renders + 1

C14_Witness ==
    /\ lastOp = "click"
    /\ clicks = 3
    /\ clickRenders = 3
    /\ isConnected
    /\ ~prev.isConnected

====
